---- MODULE Spec2Model ----
(***************************************************************************)
(* A model of bin/dm_proc_ea.py (datman): the batch loop of main, the      *)
(* per-subject orchestration of analyze_subject, the parsing and           *)
(* aggregation of the behavioural logs by process_behav_data, and the      *)
(* four output files written per condition.                                *)
(*                                                                         *)
(* Conventions.                                                            *)
(*  - A string the code inspects character by character (a code, a block   *)
(*    label, a block id) is a tuple of one-character strings, so that      *)
(*    s[0], s[-1], "x in s" and the ordering of str are computed.          *)
(*  - Times are integer ticks (10000 ticks = 1 second).  A float number of *)
(*    seconds is held as its exact number of ticks; "{:.2f}" is Fmt2,      *)
(*    which yields the number of hundredths printed.  Binary rounding      *)
(*    error of floats is outside the model.                                *)
(*  - A file is [st, header, body]: st is "absent", "open" (created or     *)
(*    truncated by open(.., 'wb'), not yet closed), "partial" (left open   *)
(*    by a process that died) or "closed".                                 *)
(***************************************************************************)
EXTENDS Integers, Sequences, FiniteSets, TLC

VARIABLES
    subjects,     \* main: the list the batch iterates over
    resources,    \* the behavioural resource files of each subject (on disk)
    glm,          \* the GLM outputs present on disk, per subject
    out,          \* the eight timing/CSV output files, per subject
    errorlog,     \* error.log, per subject
    pc,           \* position of the running invocation of main
    idx,          \* main: index of the subject of the current iteration
    rc,           \* exit status once the process has called sys.exit
    logs,         \* analyze_subject: the sorted list of discovered logs
    cond,         \* analyze_subject: index of test_type in TestTypes
    li,           \* analyze_subject: index of the next log to process
    fk,           \* analyze_subject: number of output files opened so far
    acc,          \* analyze_subject: on_all, dur_all, corr_all, push_all, timings_all
    run,          \* number of the invocation of main (1 = the first)
    found,        \* history: number of logs discovered by the current call, -1 before
    nparsed,      \* history: logs parsed by the current call of analyze_subject
    opened,       \* history: output files opened by the current call
    analysed,     \* history: subjects passed to analyze_subject by this invocation
    skipped,      \* history: phantoms this invocation passed over
    succeeded,    \* history: subjects for which analyze_subject has returned normally
    lastEnd,      \* history: how the previous invocation ended
    calc,         \* the function applied on its own, its arguments and its result
    io            \* whether open and write on the output directory may raise IOError

vars == <<subjects, resources, glm, out, errorlog, pc, idx, rc, logs, cond, li,
          fk, acc, run, found, nparsed, opened, analysed, skipped, succeeded,
          lastEnd, calc, io>>

----------------------------------------------------------------------------
(* Bounds of the model. *)

MaxSubjects == 2      \* longest batch
MaxRuns == 2          \* invocations of main in one behaviour
MaxLogs == 4          \* most logs a subject has
MaxDuration == 4      \* longest block, in ticks, of a function applied on its own
MaxVec == 3           \* longest gold-standard vector of a function applied on its own
MaxRows == 3          \* longest log of a function applied on its own

(* Program constants. *)

TicksPerSec == 10000  \* "all time in 10000s of a sec."
TrimSeconds == 8      \* "OFFSET 4 TRs == 8 Seconds!"
NLogs == 3            \* "if we have the wrong number of logs ... just fail"
NODE == "node"        \* os.uname()[1]

----------------------------------------------------------------------------
(* Strings as tuples of characters. *)

Str1(a) == <<a>>
vid_1 == <<"v", "i", "d", "_", "1">>
vid_2 == <<"v", "i", "d", "_", "2">>
cvid_1 == <<"c", "v", "i", "d", "_", "1">>
MRI_start == <<"M", "R", "I", "_", "s", "t", "a", "r", "t">>
fixation == <<"f", "i", "x">>
rating_(d) == <<"r", "a", "t", "i", "n", "g", "_", d>>
rating == <<"r", "a", "t", "i", "n", "g">>

\* The characters used, in the order of their character codes.
Alphabet == <<"1", "2", "3", "4", "5", "6", "7", "8", "9", "I", "M", "R", "_",
              "a", "c", "d", "f", "g", "i", "n", "r", "s", "t", "v", "x">>

Ord(ch) == CHOOSE n \in 1..Len(Alphabet) : Alphabet[n] = ch

\* a < b for two str values.
RECURSIVE StrLess(_, _)
StrLess(a, b) ==
    IF b = <<>> THEN FALSE
    ELSE IF a = <<>> THEN TRUE
    ELSE IF Head(a) = Head(b) THEN StrLess(Tail(a), Tail(b))
    ELSE Ord(Head(a)) < Ord(Head(b))

\* "w in s" for two str values.
Contains(s, w) ==
    \E k \in 0..(Len(s) - Len(w)) : SubSeq(s, k + 1, k + Len(w)) = w

\* int(s[-1])
LastDigit(s) == CHOOSE n \in 1..9 : Alphabet[n] = s[Len(s)]

----------------------------------------------------------------------------
(* "{:.2f}".format(x) for x = t / 10000.0: the hundredths printed. *)

Fmt2(t) ==
    LET q == t \div 100
        r == t % 100
    IN  IF r > 50 THEN q + 1
        ELSE IF r < 50 THEN q
        ELSE IF q % 2 = 0 THEN q ELSE q + 1

\* "{:.2f}".format(n) for an integer-valued n.
Fmt2Int(n) == n * 100

----------------------------------------------------------------------------
(* Rows of a log file.  A Picture row has 13 columns, a Video row 7; the   *)
(* columns the program reads are kept.                                     *)

Picture == <<"P", "i", "c", "t", "u", "r", "e">>
Video == <<"V", "i", "d", "e", "o">>

Response == <<"R", "e", "s", "p", "o", "n", "s", "e">>

Pic(trial, code, time, duration) ==
    [eventtype |-> Picture, trial |-> trial, code |-> code, time |-> time,
     duration |-> duration]

Vid(trial, code, time) ==
    [eventtype |-> Video, trial |-> trial, code |-> code, time |-> time]

\* A Response row: the columns up to the time.
Resp(trial, code, time) ==
    [eventtype |-> Response, trial |-> trial, code |-> code, time |-> time]

\* "w in s" for a line s of the log: the line is the text of its fields.
LineContains(s, w) == Contains(s.eventtype, w) \/ Contains(s.code, w)

IsPicture(s) == LineContains(s, Picture)
IsVideo(s) == LineContains(s, Video)

\* A variant of MissingStartMarker: MRI_start is looked for in any Picture row.
MissingStartMarker_any(pic) == \A i \in 1..Len(pic) : pic[i].code # MRI_start

\* pic[0][3] != 'MRI_start' (an empty pic fails on pic[0]).
MissingStartMarker(pic) == pic = <<>> \/ pic[1].code # MRI_start

\* log_parser: pic, vid and mri_start = pic[0][7], the eighth column, or a raise.
log_parser(log) ==
    LET pic == SelectSeq(log, IsPicture)
        vid == SelectSeq(log, IsVideo)
    IN  IF MissingStartMarker(pic)
        THEN [raises |-> TRUE, pic |-> pic, vid |-> vid, mri_start |-> 0]
        ELSE [raises |-> FALSE, pic |-> pic, vid |-> vid,
              mri_start |-> pic[1].duration]

\* find_blocks: (block_number, block_name, block_start) per Video row; the
\* onset of a block is block_start / 10000.0, held in ticks.
find_blocks(vid, mri_start) ==
    [blocks |-> [i \in 1..Len(vid) |-> <<vid[i].trial, vid[i].code, vid[i].time>>],
     onsets |-> [i \in 1..Len(vid) |-> vid[i].time]]

None == -1

\* A variant of trial_list: the trial of the next block is in the window.
trial_list_incl(pic, blk_start, blk_end) ==
    IF blk_end = None THEN blk_start..pic[Len(pic)].trial
    ELSE blk_start..blk_end

\* trial_list of find_ratings.
trial_list(pic, blk_start, blk_end) ==
    IF blk_end = None THEN blk_start..pic[Len(pic)].trial
    ELSE blk_start..(blk_end - 1)

\* find_ratings: the retained responses, the (value, time) pairs and the
\* number of pushes.  The dense vector r is determined by ratings,
\* blk_start_time and duration, which are returned in its place.  With no
\* response the code returns 0 for ratings: iterating it yields no rating.
find_ratings(pic, blk_start, blk_end, blk_start_time, duration) ==
    LET InTrial(s) == s.trial \in trial_list(pic, blk_start, blk_end)
        IsRating(s) == Contains(s.code, rating)
        responses == SelectSeq(SelectSeq(pic, InTrial), IsRating)
    IN  [n_pushes |-> Len(responses),
         ratings |-> [k \in 1..Len(responses) |->
                          <<LastDigit(responses[k].code), responses[k].time>>],
         start |-> blk_start_time,
         duration |-> duration]

\* A variant of RatingIndex: a time off the axis leaves idx at last.
RatingIndex_stay(fr, time, last) ==
    IF time - fr.start \in 0..(fr.duration - 1) THEN time - fr.start ELSE last

\* np.where(t == rating[1])[0] for t = linspace(blk_start_time,
\* blk_start_time + duration - 1, num=duration), and the "hack to save
\* malformed data": idx = [last + 1] when the time is not on the axis.
RatingIndex(fr, time, last) ==
    IF time - fr.start \in 0..(fr.duration - 1) THEN time - fr.start ELSE last + 1

\* The value of last after the first k ratings of the loop of find_ratings.
RECURSIVE LastAfter(_, _)
LastAfter(fr, k) ==
    IF k = 0 THEN 0 ELSE RatingIndex(fr, fr.ratings[k][2], LastAfter(fr, k - 1))

\* A variant of ValAfter: the value of the next rating is held ahead of it.
ValAfter_next(fr, k) ==
    IF k = Len(fr.ratings) THEN fr.ratings[k][1] ELSE fr.ratings[k + 1][1]

\* The value of val after the first k ratings: 5, then the rating's value.
ValAfter(fr, k) == IF k = 0 THEN 5 ELSE fr.ratings[k][1]

\* A variant of FillAt: the last assignment is r[last + 1:] = val.
FillAt_tail(fr, q) ==
    LET n == Len(fr.ratings)
        covers == {k \in 1..n : LastAfter(fr, k - 1) <= q /\ q < LastAfter(fr, k)}
    IN  IF q > LastAfter(fr, n) THEN ValAfter(fr, n)
        ELSE IF covers = {} THEN 0
        ELSE ValAfter(fr, (CHOOSE k \in covers : \A m \in covers : m <= k) - 1)

\* r[q] when the loop is over (q counts from 0): r = np.zeros(duration), then
\* r[last:idx] = val per rating, then r[last:] = val; the last assignment
\* that covers q gives its value.
FillAt(fr, q) ==
    LET n == Len(fr.ratings)
        covers == {k \in 1..n : LastAfter(fr, k - 1) <= q /\ q < LastAfter(fr, k)}
    IN  IF q >= LastAfter(fr, n) THEN ValAfter(fr, n)
        ELSE IF covers = {} THEN 0
        ELSE ValAfter(fr, (CHOOSE k \in covers : \A m \in covers : m <= k) - 1)

\* The vector find_ratings returns: np.array([5]) without a response, else r.
subj_rate(fr) ==
    IF fr.n_pushes = 0 THEN <<5>>
    ELSE [q \in 1..fr.duration |-> FillAt(fr, q - 1)]

\* A variant of InterpAt: the points are spread from 0 to lb, not to lb - 1.
InterpAt_end(la, lb, b, j) ==
    LET den == IF la > 1 THEN la - 1 ELSE 1
        q == (j * lb) \div den
        rem == (j * lb) % den
    IN  IF q >= lb - 1 THEN <<b[lb - 1] * den, den>>
        ELSE IF rem = 0 THEN <<b[q] * den, den>>
        ELSE <<b[q] * den + rem * (b[q + 1] - b[q]), den>>

\* interp(np.linspace(0, lb - 1, la))[j] for interp = interp1d(
\* np.linspace(0, lb - 1, lb), b), j counted from 0 and b[q] the sample q of
\* b, q in 0..lb-1: the exact value, as <<numerator, denominator>> with
\* denominator la - 1.
InterpAt(la, lb, b, j) ==
    LET den == IF la > 1 THEN la - 1 ELSE 1
        q == (j * (lb - 1)) \div den
        rem == (j * (lb - 1)) % den
    IN  IF rem = 0 THEN <<b[q] * den, den>>
        ELSE <<b[q] * den + rem * (b[q + 1] - b[q]), den>>

\* A variant of match_lengths: b is sampled at its own length.
match_lengths_own(a, b) ==
    [j \in 1..Len(b) |->
        InterpAt(Len(b), Len(b), [q \in 0..(Len(b) - 1) |-> b[q + 1]], j - 1)]

\* match_lengths(a, b): b brought to the length of a by linear interpolation.
match_lengths(a, b) ==
    [j \in 1..Len(a) |->
        InterpAt(Len(a), Len(b), [q \in 0..(Len(b) - 1) |-> b[q + 1]], j - 1)]

\* np.repeat(5, len(gold_rate))
repeat5(n) == [j \in 1..n |-> <<5, 1>>]

\* Not-a-number, and an entry of a z-scored vector that is a number.
NaN == [kind |-> "nan", of |-> <<>>, at |-> 0]
ZEntry(data, k) == [kind |-> "z", of |-> data, at |-> k]
ZeroEntry == [kind |-> "zero", of |-> <<>>, at |-> 0]

\* np.std(data) = 0: all the entries are equal.
ZeroStd(data) == \A i, j \in 1..Len(data) : data[i] = data[j]

\* zscore(data): (data - mean) / std.  With std = 0 numpy divides 0.0 by 0.0
\* to nan under a RuntimeWarning; no exception is raised, so the except
\* branch (np.zeros) is not taken.
zscore(data) ==
    IF ZeroStd(data) THEN [k \in 1..Len(data) |-> NaN]
    ELSE [k \in 1..Len(data) |-> ZEntry(data, k)]

HasNan(v) == \E k \in 1..Len(v) : v[k] = NaN

RECURSIVE SumSeq(_)
SumSeq(v) == IF v = <<>> THEN 0 ELSE Head(v) + SumSeq(Tail(v))

\* v less its mean, times len(v).
Centered(v) == [i \in 1..Len(v) |-> Len(v) * v[i] - SumSeq(v)]

\* The coefficient of two vectors with variance when it is 1 or -1: the
\* centred vectors are proportional, and the sign is that of their product.
\* 0 stands for any other coefficient.
PerfectSign(xs, ys) ==
    LET cx == Centered(xs)
        cy == Centered(ys)
        dot == SumSeq([i \in 1..Len(xs) |-> cx[i] * cy[i]])
    IN  IF \E i, j \in 1..Len(xs) : cx[i] * cy[j] # cx[j] * cy[i] THEN 0
        ELSE IF dot > 0 THEN 1 ELSE -1

\* np.corrcoef(subj_rate, gold_rate)[1][0]: nan when a vector holds a nan,
\* else the coefficient of the two vectors: 1.0, -1.0 or, held as a term, a
\* number between them.  x is the z-scored subject vector (of numerators
\* over one denominator), y the z-scored gold-standard vector.
corrcoef(x, y) ==
    IF HasNan(x) \/ HasNan(y) THEN [kind |-> "nan", x |-> <<>>, y |-> <<>>]
    ELSE LET xs == [k \in 1..Len(x) |-> x[1].of[k][1]]
             sign == PerfectSign(xs, y[1].of)
         IN  [kind |-> IF sign = 1 THEN "1.0" ELSE IF sign = -1 THEN "-1.0" ELSE "r",
              x |-> x, y |-> y]

\* A variant of nan_to_zero: a nan is left as it is.
nan_to_zero_none(corr) == corr

\* if np.isnan(corr): corr = 0
nan_to_zero(corr) ==
    IF corr.kind = "nan" THEN [kind |-> "0", x |-> <<>>, y |-> <<>>] ELSE corr

\* r2z(data): 0.5 * log((1 + data) / (1 - data)), which is 0.0 at 0.  At 1.0
\* numpy divides 2.0 by 0.0 to inf under a RuntimeWarning and log(inf) is inf;
\* at -1.0 log(0.0) is -inf.
r2z(data) ==
    IF data.kind = "0" THEN [kind |-> "0.0", of |-> data]
    ELSE IF data.kind = "1.0" THEN [kind |-> "inf", of |-> data]
    ELSE IF data.kind = "-1.0" THEN [kind |-> "-inf", of |-> data]
    ELSE [kind |-> "r2z", of |-> data]

\* assets/EA-timing.csv: the gold-standard ratings of a block by its label.
GoldRate(blk_name) ==
    IF blk_name = vid_1 THEN <<4, 5, 7>>
    ELSE IF blk_name = vid_2 THEN <<6, 6, 6>>
    ELSE <<5, 2, 8, 3>>

\* assets/EA-vid-lengths.csv: the nominal duration of a block by its label,
\* in ticks (the file holds seconds).
VidLengths(blk_name) ==
    IF blk_name = vid_1 THEN 20000
    ELSE IF blk_name = vid_2 THEN 30000
    ELSE 25000

\* subj_rate after lines 325-328: match_lengths(gold_rate, subj_rate) with a
\* push, np.repeat(5, len(gold_rate)) without.  The samples of subj_rate are
\* read through FillAt, sample by sample.
aligned(gold_rate, fr) ==
    IF fr.n_pushes # 0
    THEN [j \in 1..Len(gold_rate) |->
             InterpAt(Len(gold_rate), fr.duration,
                      [q \in 0..(fr.duration - 1) |-> FillAt(fr, q)], j - 1)]
    ELSE repeat5(Len(gold_rate))

\* r2z(corrcoef(zscore(subj_rate), zscore(gold_rate))), with 0 in place of nan:
\* the amplitude z, with the label of the gold-standard column and the
\* subject's ratings it is computed from.
correlate(blk_name, fr) ==
    LET gold_rate == GoldRate(blk_name)
    IN  [gold |-> blk_name, subj |-> fr,
         z |-> r2z(nan_to_zero(corrcoef(zscore(aligned(gold_rate, fr)),
                                        zscore(gold_rate))))]

\* n_pushes / (duration / 60.0), as numerator and denominator.
pushes_per_minute(n_pushes, duration) == <<n_pushes * 60 * TicksPerSec, duration>>

\* A variant of SkipBlock: the two test types are exchanged.
SkipBlock_swapped(trial_type, blk_name) ==
    \/ trial_type = "vid" /\ blk_name[1] = "v"
    \/ trial_type = "cvid" /\ blk_name[1] = "c"

\* The filter of process_behav_data: TRUE when the block is skipped.
SkipBlock(trial_type, blk_name) ==
    \/ trial_type = "vid" /\ blk_name[1] = "c"
    \/ trial_type = "cvid" /\ blk_name[1] = "v"

\* The indices of the blocks that pass the filter, in order.
KeptIdx(blocks, trial_type) ==
    LET Kept(i) == ~SkipBlock(trial_type, blocks[i][2])
        RECURSIVE From(_)
        From(i) == IF i > Len(blocks) THEN <<>>
                   ELSE IF Kept(i) THEN <<i>> \o From(i + 1)
                   ELSE From(i + 1)
    IN  From(1)

\* The figure of process_behav_data: 1.0/len(blocks) divides by zero without
\* blocks, and with one block plt.subplots returns one axis, which axs[i]
\* cannot index.
PlotRaises(blocks) == Len(blocks) < 2

RECURSIVE Flatten(_)
Flatten(ss) == IF ss = <<>> THEN <<>> ELSE Head(ss) \o Flatten(Tail(ss))

\* A variant of BlockRatings: the window of every block runs to the last trial.
BlockRatings_open(p, blocks, i) ==
    find_ratings(p.pic, blocks[i][1], None, blocks[i][3], VidLengths(blocks[i][2]))

\* The rating of block i of a parsed log.
BlockRatings(p, blocks, i) ==
    find_ratings(p.pic, blocks[i][1],
                 IF i < Len(blocks) THEN blocks[i + 1][1] ELSE None,
                 blocks[i][3], VidLengths(blocks[i][2]))

\* onsets_used.append((blocks[i][1], onsets[i] - mri_start/10000.0, block_id))
onsets_used(p, fb, kept, block_id) ==
    [j \in 1..Len(kept) |->
        <<fb.blocks[kept[j]][2], fb.onsets[kept[j]] - p.mri_start, block_id>>]

\* durations.append(duration.tolist())
durations(fb, kept) ==
    [j \in 1..Len(kept) |-> VidLengths(fb.blocks[kept[j]][2])]

\* A variant of correlations: the amplitude is appended before the filter, for
\* every block of the log.
correlations_all(p, fb, kept) ==
    [j \in 1..Len(fb.blocks) |->
        correlate(fb.blocks[j][2], BlockRatings(p, fb.blocks, j))]

\* correlations.append(corr)
correlations(p, fb, kept) ==
    [j \in 1..Len(kept) |->
        correlate(fb.blocks[kept[j]][2], BlockRatings(p, fb.blocks, kept[j]))]

\* button_pushes.append(n_pushes / (duration.tolist() / 60.0))
button_pushes(p, fb, kept) ==
    [j \in 1..Len(kept) |->
        pushes_per_minute(BlockRatings(p, fb.blocks, kept[j]).n_pushes,
                          VidLengths(fb.blocks[kept[j]][2]))]

\* all_ratings.append((r[0], r[1] - mri_start, block_id, blocks[i][1]))
all_ratings(p, fb, kept, block_id) ==
    Flatten([j \in 1..Len(kept) |->
        LET rs == BlockRatings(p, fb.blocks, kept[j]).ratings
        IN  [k \in 1..Len(rs) |->
                <<rs[k][1], rs[k][2] - p.mri_start, block_id, fb.blocks[kept[j]][2]>>]])

\* process_behav_data: the five lists for one log and one trial type, or a raise.
process_behav_data(log, trial_type, block_id) ==
    LET p == log_parser(log)
        fb == find_blocks(p.vid, p.mri_start)
        kept == KeptIdx(fb.blocks, trial_type)
    IN  IF p.raises \/ PlotRaises(fb.blocks)
        THEN [raises |-> TRUE]
        ELSE [raises |-> FALSE,
              on |-> onsets_used(p, fb, kept, block_id),
              dur |-> durations(fb, kept),
              corr |-> correlations(p, fb, kept),
              push |-> button_pushes(p, fb, kept),
              timings |-> all_ratings(p, fb, kept, block_id)]

----------------------------------------------------------------------------
(* The files of one subject. *)

TestTypes == <<"vid", "cvid">>

\* f1..f4 of analyze_subject: block-times_ea.1D, corr_push.csv,
\* button-times.csv, vid-onsets.csv.
NFiles == 4

Absent == [st |-> "absent", header |-> "", body |-> <<>>]
Truncated == [st |-> "open", header |-> "", body |-> <<>>]

IsFile(f) == f.st # "absent"

\* The files check_complete expects, as (kind, test type index, file index)
\* or (kind, test type).
expected_files ==
    {<<"out", c, k>> : c \in 1..2, k \in 1..NFiles} \cup
    {<<"glm", "cvid">>, <<"glm", "vid">>}

\* os.path.isfile of an expected file of subject s.
Exists(s, f) ==
    IF f[1] = "out" THEN IsFile(out[s][f[2]][f[3]]) ELSE f[2] \in glm[s]

\* A variant of check_complete: only the vid files and the GLM outputs are expected.
check_complete_vid(s) ==
    \A f \in expected_files : (f[1] = "out" /\ f[2] = 2) \/ Exists(s, f)

\* check_complete(ea_dir, subject)
check_complete(s) == \A f \in expected_files : Exists(s, f)

----------------------------------------------------------------------------
(* The resource files of a subject: path is the rank of the file's path in *)
(* the order of str, matches says whether '.log' and 'UCLAEmpAcc' are in   *)
(* the path, block_id is the last character of the file name's stem.       *)

File(path, matches, block_id, rows) ==
    [path |-> path, matches |-> matches, block_id |-> block_id, rows |-> rows]

\* logs = filter(...); logs.sort()
RECURSIVE SortByPath(_)
SortByPath(fs) ==
    IF fs = {} THEN <<>>
    ELSE LET f == CHOOSE g \in fs : \A h \in fs : g.path <= h.path
         IN  <<f>> \o SortByPath(fs \ {f})

DiscoverLogs(s) == SortByPath({f \in resources[s] : f.matches})

\* A variant of WrongLogCount: only too few logs are refused.
WrongLogCount_few(ls) == Len(ls) < NLogs

\* len(logs) != 3
WrongLogCount(ls) == Len(ls) # NLogs

\* A variant of TimingLess: the key is (x[2], x[3]), without the time.
TimingLess_notime(a, b) ==
    \/ StrLess(a[3], b[3])
    \/ a[3] = b[3] /\ StrLess(a[4], b[4])

\* The key of sorted(timings_all, key=lambda x: (x[2], x[3], x[1])): a before b.
TimingLess(a, b) ==
    \/ StrLess(a[3], b[3])
    \/ a[3] = b[3] /\ StrLess(a[4], b[4])
    \/ a[3] = b[3] /\ a[4] = b[4] /\ a[2] < b[2]

\* sorted(): stable, an element goes after the elements that are not after it.
RECURSIVE Insert(_, _)
Insert(x, ss) ==
    IF ss = <<>> THEN <<x>>
    ELSE IF TimingLess(x, Head(ss)) THEN <<x>> \o ss
    ELSE <<Head(ss)>> \o Insert(x, Tail(ss))

RECURSIVE sorted(_)
sorted(ss) ==
    IF ss = <<>> THEN <<>>
    ELSE Insert(ss[Len(ss)], sorted(SubSeq(ss, 1, Len(ss) - 1)))

----------------------------------------------------------------------------
(* What analyze_subject writes to the four files of a condition. *)

\* '{r:.2f}' of an amplitude.
FmtCorr(c) == [fmt |-> "2f", of |-> c]

\* A variant of TrimOnset: the onset is written as it is.
TrimOnset_none(on) == on

\* on_all[i][1] - 8.0
TrimOnset(on) == on - TrimSeconds * TicksPerSec

\* '{o:.2f}*{r:.2f},{p}:{d:.2f} '
Token(a, i) ==
    [o |-> Fmt2(TrimOnset(a.on[i][2])), r |-> FmtCorr(a.corr[i]),
     p |-> a.push[i], d |-> Fmt2(a.dur[i])]

\* f1: the tokens of range(len(on_all)), then '\n'.
TimingLines(a) == << [i \in 1..Len(a.on) |-> Token(a, i)] >>

\* f2: '{r:.2f},{p}\n'
CorrRows(a) ==
    [i \in 1..Len(a.on) |-> [r |-> FmtCorr(a.corr[i]), p |-> a.push[i]]]

\* f3: '{b},{v},{r},{t:.2f}\n'
ButtonRows(a) ==
    [i \in 1..Len(a.timings) |->
        [b |-> a.timings[i][3], v |-> a.timings[i][4], r |-> a.timings[i][1],
         t |-> Fmt2Int(a.timings[i][2])]]

\* f4: '{b},{r},{t:.2f}\n'
OnsetRows(a) ==
    [i \in 1..Len(a.on) |->
        [b |-> a.on[i][3], r |-> a.on[i][1], t |-> Fmt2(a.on[i][2])]]

Headers ==
    <<"", "correlation,n-pushes-per-minute\n", "Block_ID,Video,Response,Timing\n",
      "Block_ID,Video, Onset\n">>

Written(a, k) ==
    [st |-> "open", header |-> Headers[k],
     body |-> CASE k = 1 -> TimingLines(a)
                [] k = 2 -> CorrRows(a)
                [] k = 3 -> ButtonRows(a)
                [] OTHER -> OnsetRows(a)]

\* A variant of OpenWB: the file is opened for appending (mode 'ab').
OpenWB_append(f) == IF f.st = "absent" THEN Truncated ELSE [f EXCEPT !.st = "open"]

\* open(path, 'wb'): the file is created, or emptied if it exists.
OpenWB(f) == Truncated

\* f.write of the header and the rows w to the open file f: they follow what
\* the file holds.
Write(f, w) ==
    IF f.header = "" /\ f.body = <<>> THEN w
    ELSE [st |-> "open", header |-> f.header, body |-> f.body \o <<w.header>> \o w.body]

EmptyAcc == [on |-> <<>>, dur |-> <<>>, corr |-> <<>>, push |-> <<>>, timings |-> <<>>]

NoError == [st |-> "absent", message |-> <<>>, node |-> ""]

----------------------------------------------------------------------------
(* The inputs: logs, resource directories and batches. *)

StartRow == Pic(1, MRI_start, 5000, 79992)
OtherRow == Pic(1, fixation, 5000, 79992)

VidLists ==
    { <<Vid(2, vid_1, 100000), Vid(5, cvid_1, 250000)>>,
      <<Vid(2, vid_2, 100000), Vid(5, vid_1, 250000)>> }

\* Picture rows after the first: none is a rating; ratings whose times are
\* not in the order of the rows.
PicLists ==
    { <<Pic(3, fixation, 100500, 0), Pic(6, fixation, 250500, 0)>>,
      <<Pic(3, rating_("7"), 100003, 0), Pic(3, rating_("3"), 100001, 0),
        Pic(6, rating_("2"), 250002, 0)>>,
      <<Pic(3, rating_("4"), 100002, 0), Pic(6, rating_("9"), 250004, 0),
        Pic(6, rating_("1"), 250001, 0)>> }

Rows(first, vids, pics) == <<first>> \o vids \o pics

GoodLogs == {Rows(StartRow, v, p) : v \in VidLists, p \in PicLists}

GoodLog == Rows(StartRow, <<Vid(2, vid_1, 100000), Vid(5, cvid_1, 250000)>>,
                <<Pic(3, rating_("7"), 100003, 0), Pic(6, rating_("2"), 250002, 0)>>)
\* MRI_start is in the log, but is not its first Picture row.
NoStartLog == Rows(OtherRow, <<Vid(2, vid_1, 100000), Vid(5, cvid_1, 250000)>>,
                   <<Pic(1, MRI_start, 6000, 79992), Pic(3, rating_("7"), 100003, 0)>>)
OneBlockLog == Rows(StartRow, <<Vid(2, vid_1, 100000)>>,
                    <<Pic(3, rating_("7"), 100003, 0)>>)

\* Ratings that leave the subject's vector constant: a rating of 5, and a
\* rating at the very start of the block; the last block has no rating.
FlatLog == Rows(StartRow, <<Vid(2, vid_1, 100000), Vid(5, cvid_1, 250000),
                            Vid(8, vid_1, 400000)>>,
                <<Pic(3, rating_("5"), 100003, 0), Pic(6, rating_("8"), 250000, 0),
                  Pic(9, fixation, 400500, 0)>>)

\* The block ids of the three logs, in the order of their paths.
BlockIds == { <<"1", "2", "3">>, <<"2", "1", "1">> }

LogFiles(rowss, ids) ==
    {File(k, TRUE, Str1(ids[k]), rowss[k]) : k \in 1..Len(rowss)}

\* Three logs that parse, with any contents.
RichResources ==
    {LogFiles(<<a, b, c>>, ids) : a \in GoodLogs, b \in GoodLogs, c \in GoodLogs,
                                  ids \in BlockIds}

ThreeGood == LogFiles(<<GoodLog, GoodLog, GoodLog>>, <<"1", "2", "3">>)

\* n logs that parse, n other than 3.
WrongCounts ==
    {LogFiles([k \in 1..n |-> GoodLog], [k \in 1..n |-> Alphabet[k]]) :
        n \in (0..MaxLogs) \ {NLogs}}

\* What a subject of a batch finds on disk: its resource files and its GLM outputs.
Scenarios ==
    {[resources |-> r, glm |-> {}] : r \in WrongCounts} \cup
    { [resources |-> ThreeGood, glm |-> {}],
      [resources |-> ThreeGood, glm |-> {"vid"}],
      [resources |-> ThreeGood \cup {File(0, FALSE, Str1("x"), <<>>)},
       glm |-> {"vid", "cvid"}],
      [resources |-> LogFiles(<<GoodLog, NoStartLog, GoodLog>>, <<"1", "2", "3">>),
       glm |-> {}],
      [resources |-> LogFiles(<<GoodLog, GoodLog, OneBlockLog>>, <<"1", "2", "3">>),
       glm |-> {"vid", "cvid"}],
      [resources |-> LogFiles(<<GoodLog, FlatLog, GoodLog>>, <<"1", "2", "3">>),
       glm |-> {}] }

NoOutputs == [c \in 1..2 |-> [k \in 1..NFiles |-> Absent]]

\* No function is applied on its own in a run of main.
NoCall == [op |-> "none"]

\* The state of a process that is not inside analyze_subject.
Idle ==
    /\ logs = <<>>
    /\ cond = 1
    /\ li = 1
    /\ fk = 0
    /\ acc = EmptyAcc

Begin ==
    /\ pc = "main"
    /\ idx = 1
    /\ rc = None
    /\ Idle
    /\ found = -1
    /\ nparsed = 0
    /\ opened = {}
    /\ analysed = {}
    /\ skipped = {}

\* A batch of one or more subjects, phantoms among them.
InitBatch ==
    \E n \in 1..MaxSubjects :
        /\ subjects \in [1..n -> [pha : BOOLEAN]]
        /\ \E sc \in [1..n -> Scenarios] :
              /\ resources = [i \in 1..n |-> IF subjects[i].pha THEN {}
                                             ELSE sc[i].resources]
              /\ glm = [i \in 1..n |-> IF subjects[i].pha THEN {} ELSE sc[i].glm]
              /\ \A i \in 1..n : subjects[i].pha => sc[i] = [resources |-> {}, glm |-> {}]

\* One subject (--subject) with three logs of any contents.
InitSubject ==
    /\ subjects = <<[pha |-> FALSE]>>
    /\ resources \in [1..1 -> RichResources]
    /\ glm = <<{}>>

\* One subject with three good logs whose output directory may fail.
InitFaulty ==
    /\ subjects = <<[pha |-> FALSE]>>
    /\ resources = <<ThreeGood>>
    /\ glm = <<{}>>
    /\ io = "faulty"

Init ==
    /\ \/ (InitBatch \/ InitSubject) /\ io = "ok"
       \/ InitFaulty
    /\ out = [i \in 1..Len(subjects) |-> NoOutputs]
    /\ errorlog = [i \in 1..Len(subjects) |-> NoError]
    /\ Begin
    /\ run = 1
    /\ succeeded = {}
    /\ lastEnd = "none"
    /\ calc = NoCall

----------------------------------------------------------------------------
(* main: one iteration of "for subject in subjects". *)

disk == <<subjects, resources, glm, io>>
locals == <<logs, cond, li, fk, acc>>
call == <<found, nparsed, opened>>

\* The loop is over: main returns.
MainFinish ==
    /\ pc = "main"
    /\ idx > Len(subjects)
    /\ pc' = "done"
    /\ UNCHANGED <<disk, calc, out, errorlog, idx, rc, locals, run, call, analysed,
                   skipped, succeeded, lastEnd>>

\* A variant of MainPhantom: a phantom ends the run (sys.exit(1)).
MainPhantom_stop ==
    /\ pc = "main"
    /\ idx <= Len(subjects)
    /\ subjects[idx].pha
    /\ pc' = "exited"
    /\ rc' = 1
    /\ skipped' = skipped \cup {idx}
    /\ UNCHANGED <<disk, calc, out, errorlog, idx, locals, run, call, analysed,
                   succeeded, lastEnd>>

\* if '_PHA_' in subject: continue
MainPhantom ==
    /\ pc = "main"
    /\ idx <= Len(subjects)
    /\ subjects[idx].pha
    /\ idx' = idx + 1
    /\ skipped' = skipped \cup {idx}
    /\ UNCHANGED <<disk, calc, out, errorlog, pc, rc, locals, run, call, analysed,
                   succeeded, lastEnd>>

\* analyze_subject(subject, config, study)
MainAnalyze ==
    /\ pc = "main"
    /\ idx <= Len(subjects)
    /\ ~subjects[idx].pha
    /\ pc' = "check"
    /\ analysed' = analysed \cup {idx}
    /\ found' = -1
    /\ nparsed' = 0
    /\ opened' = {}
    /\ UNCHANGED <<disk, calc, out, errorlog, idx, rc, locals, run, skipped, succeeded,
                   lastEnd>>

----------------------------------------------------------------------------
(* analyze_subject *)

\* sys.exit(status)
Exit(status) ==
    /\ pc' = "exited"
    /\ rc' = status

\* if check_complete(ea_dir, subject): sys.exit(0)
CheckComplete ==
    /\ pc = "check"
    /\ IF check_complete(idx) THEN Exit(0)
       ELSE pc' = "discover" /\ rc' = rc
    /\ UNCHANGED <<disk, calc, out, errorlog, idx, locals, run, call, analysed, skipped,
                   succeeded, lastEnd>>

\* The error log of a wrong number of logs: the message names the logs found.
WrongCountError(ls) ==
    [st |-> "present",
     message |-> <<"Did not find exactly 3 logs", [k \in 1..Len(ls) |-> ls[k].path]>>,
     node |-> NODE]

\* A variant of reset_error_log: an error.log already there is left alone.
reset_error_log_keep(e) == e

\* if os.path.isfile(error_log): os.remove(error_log)
reset_error_log(e) == NoError

\* error.log is removed, the logs are discovered and counted.
Discover ==
    /\ pc = "discover"
    /\ LET ls == DiscoverLogs(idx)
       IN  /\ logs' = ls
           /\ found' = Len(ls)
           /\ IF WrongLogCount(ls)
              THEN /\ errorlog' = [errorlog EXCEPT ![idx] = WrongCountError(ls)]
                   /\ Exit(1)
              ELSE /\ errorlog' = [errorlog EXCEPT ![idx] = reset_error_log(errorlog[idx])]
                   /\ pc' = IF ls = <<>> THEN "open" ELSE "parse"
                   /\ rc' = rc
    /\ cond' = 1
    /\ li' = 1
    /\ fk' = 0
    /\ acc' = EmptyAcc
    /\ UNCHANGED <<disk, calc, out, idx, run, nparsed, opened, analysed, skipped,
                   succeeded, lastEnd>>

\* A variant of ParseLog: the files are opened after the first log.
ParseLog_first ==
    /\ pc = "parse"
    /\ nparsed' = nparsed + 1
    /\ LET log == logs[li]
           r == process_behav_data(log.rows, TestTypes[cond], log.block_id)
       IN  IF r.raises
           THEN /\ Exit(1)
                /\ UNCHANGED <<li, acc>>
           ELSE /\ acc' = [on |-> acc.on \o r.on, dur |-> acc.dur \o r.dur,
                           corr |-> acc.corr \o r.corr, push |-> acc.push \o r.push,
                           timings |-> acc.timings \o r.timings]
                /\ pc' = "open"
                /\ li' = li
                /\ rc' = rc
    /\ UNCHANGED <<disk, calc, out, errorlog, idx, logs, cond, fk, run, found, opened,
                   analysed, skipped, succeeded, lastEnd>>

\* One iteration of "for log in logs": process_behav_data and the five extends;
\* an exception ends the process with sys.exit(1).
ParseLog ==
    /\ pc = "parse"
    /\ nparsed' = nparsed + 1
    /\ LET log == logs[li]
           r == process_behav_data(log.rows, TestTypes[cond], log.block_id)
       IN  IF r.raises
           THEN /\ Exit(1)
                /\ UNCHANGED <<li, acc>>
           ELSE /\ acc' = [on |-> acc.on \o r.on, dur |-> acc.dur \o r.dur,
                           corr |-> acc.corr \o r.corr, push |-> acc.push \o r.push,
                           timings |-> acc.timings \o r.timings]
                /\ IF li = Len(logs) THEN pc' = "open" /\ li' = li
                   ELSE pc' = "parse" /\ li' = li + 1
                /\ rc' = rc
    /\ UNCHANGED <<disk, calc, out, errorlog, idx, logs, cond, fk, run, found, opened,
                   analysed, skipped, succeeded, lastEnd>>

\* timings_all is sorted (before the first open) and the next of f1..f4 is
\* opened with mode 'wb'.
OpenFile ==
    /\ pc = "open"
    /\ fk < NFiles
    /\ fk' = fk + 1
    /\ acc' = IF fk = 0 THEN [acc EXCEPT !.timings = sorted(acc.timings)] ELSE acc
    /\ out' = [out EXCEPT ![idx][cond][fk + 1] = OpenWB(out[idx][cond][fk + 1])]
    /\ opened' = opened \cup {<<cond, fk + 1>>}
    /\ pc' = IF fk + 1 = NFiles THEN "write" ELSE "open"
    /\ UNCHANGED <<disk, calc, errorlog, idx, rc, logs, cond, li, run, found, nparsed,
                   analysed, skipped, succeeded, lastEnd>>

\* The headers and the rows are written to the open files.
WriteRows ==
    /\ pc = "write"
    /\ out' = [out EXCEPT ![idx][cond] =
                  [k \in 1..NFiles |-> Write(out[idx][cond][k], Written(acc, k))]]
    /\ pc' = "close"
    /\ UNCHANGED <<disk, calc, errorlog, idx, rc, locals, run, call, analysed, skipped,
                   succeeded, lastEnd>>

\* What follows the try statement of a test type: the next test type, or the
\* return to the loop of main.
AfterFinally ==
    IF cond < Len(TestTypes)
    THEN /\ cond' = cond + 1
         /\ li' = 1
         /\ fk' = 0
         /\ acc' = EmptyAcc
         /\ pc' = IF logs = <<>> THEN "open" ELSE "parse"
         /\ UNCHANGED <<idx, logs, succeeded>>
    ELSE /\ pc' = "main"
         /\ idx' = idx + 1
         /\ succeeded' = succeeded \cup {idx}
         /\ logs' = <<>>
         /\ cond' = 1
         /\ li' = 1
         /\ fk' = 0
         /\ acc' = EmptyAcc

\* The files of the test type with every open one closed.
Closed(fs) == [k \in 1..NFiles |-> IF fs[k].st = "open"
                                    THEN [fs[k] EXCEPT !.st = "closed"] ELSE fs[k]]

\* The names f1..f4 that are bound when the open of file fk + 1 raises: those
\* opened by this test type, and all four once an earlier test type of the
\* call has bound them.
Bound(c, n) == IF c > 1 THEN 1..NFiles ELSE 1..n

\* The open of file fk + 1 raises IOError: the except clause logs it, the
\* finally clause closes f1..f4 in turn, and the close of a name that was
\* never bound raises UnboundLocalError, which leaves analyze_subject and main.
OpenFails ==
    /\ pc = "open"
    /\ io = "faulty"
    /\ fk < NFiles
    /\ out' = [out EXCEPT ![idx][cond] = Closed(out[idx][cond])]
    /\ IF Bound(cond, fk) = 1..NFiles
       THEN AfterFinally
       ELSE /\ pc' = "raised"
            /\ UNCHANGED <<idx, locals, succeeded>>
    /\ UNCHANGED <<disk, calc, errorlog, rc, run, call, analysed, skipped, lastEnd>>

\* A write raises IOError: the except clause logs it and the finally clause
\* closes the four files, which hold no more than what was written so far.
WriteFails ==
    /\ pc = "write"
    /\ io = "faulty"
    /\ out' = [out EXCEPT ![idx][cond] = Closed(out[idx][cond])]
    /\ AfterFinally
    /\ UNCHANGED <<disk, calc, errorlog, rc, run, call, analysed, skipped, lastEnd>>

\* finally: the four files are closed; the next test type follows, or the
\* function returns to the loop of main.
CloseFiles ==
    /\ pc = "close"
    /\ out' = [out EXCEPT ![idx][cond] =
                  [k \in 1..NFiles |-> [out[idx][cond][k] EXCEPT !.st = "closed"]]]
    /\ IF cond < Len(TestTypes)
       THEN /\ cond' = cond + 1
            /\ li' = 1
            /\ fk' = 0
            /\ acc' = EmptyAcc
            /\ pc' = IF logs = <<>> THEN "open" ELSE "parse"
            /\ UNCHANGED <<idx, logs, succeeded>>
       ELSE /\ pc' = "main"
            /\ idx' = idx + 1
            /\ succeeded' = succeeded \cup {idx}
            /\ logs' = <<>>
            /\ cond' = 1
            /\ li' = 1
            /\ fk' = 0
            /\ acc' = EmptyAcc
    /\ UNCHANGED <<disk, calc, errorlog, rc, run, call, analysed, skipped, lastEnd>>

----------------------------------------------------------------------------
(* The environment: the process is killed; main is invoked again. *)

Running == pc \notin {"done", "exited", "crashed", "raised"}

\* A file left open by a process that died is incomplete.
LeftBy(f) == IF f.st = "open" THEN [f EXCEPT !.st = "partial"] ELSE f

Crash ==
    /\ Running
    /\ pc' = "crashed"
    /\ out' = [i \in 1..Len(subjects) |->
                  [c \in 1..2 |-> [k \in 1..NFiles |-> LeftBy(out[i][c][k])]]]
    /\ logs' = <<>>
    /\ cond' = 1
    /\ li' = 1
    /\ fk' = 0
    /\ acc' = EmptyAcc
    /\ UNCHANGED <<disk, calc, errorlog, idx, rc, run, call, analysed, skipped,
                   succeeded, lastEnd>>

\* The logs a subject lacked are delivered after the invocation that failed
\* for want of them.
Upload ==
    /\ pc = "exited"
    /\ rc = 1
    /\ found \notin {-1, NLogs}
    /\ run < MaxRuns
    /\ resources[idx] # ThreeGood
    /\ resources' = [resources EXCEPT ![idx] = ThreeGood]
    /\ UNCHANGED <<subjects, glm, io, calc, out, errorlog, pc, idx, rc, locals, run,
                   call, analysed, skipped, succeeded, lastEnd>>

Restart ==
    /\ ~Running
    /\ run < MaxRuns
    /\ run' = run + 1
    /\ lastEnd' = pc
    /\ pc' = "main"
    /\ idx' = 1
    /\ rc' = None
    /\ logs' = <<>>
    /\ cond' = 1
    /\ li' = 1
    /\ fk' = 0
    /\ acc' = EmptyAcc
    /\ found' = -1
    /\ nparsed' = 0
    /\ opened' = {}
    /\ analysed' = {}
    /\ skipped' = {}
    /\ UNCHANGED <<disk, calc, out, errorlog, succeeded>>

Next ==
    \/ MainFinish
    \/ MainPhantom
    \/ MainAnalyze
    \/ CheckComplete
    \/ Discover
    \/ ParseLog
    \/ OpenFile
    \/ WriteRows
    \/ OpenFails
    \/ WriteFails
    \/ CloseFiles
    \/ Upload
    \/ Crash
    \/ Restart

Spec == Init /\ [][Next]_vars

----------------------------------------------------------------------------
(* The functions of the module applied on their own, to small arguments:    *)
(* a behaviour is one application.                                         *)

\* All the sequences over S of the lengths lo..hi.
SeqsOf(S, lo, hi) == UNION {[1..n -> S] : n \in lo..hi}

\* The start of the block the functions are applied to, and its trial.
UnitStart == 10
UnitTrial == 2

\* The Picture rows of a log with one block: the first row, a row of the
\* block's trial that is no rating, rating rows of the block's trials, and a
\* rating row of a later trial or none.
UnitRatings ==
    SeqsOf({<<v, t>> : v \in {"5", "8"},
                       t \in (UnitStart - 1)..(UnitStart + MaxDuration)}, 0, 2)

UnitPic(rs, tail) ==
    <<StartRow, Pic(UnitTrial, fixation, UnitStart, 0)>>
        \o [k \in 1..Len(rs) |-> Pic(UnitTrial + 1, rating_(rs[k][1]), rs[k][2], 0)]
        \o (IF tail THEN <<Pic(UnitTrial + 3, rating_("9"), UnitStart + 1, 0)>>
            ELSE <<>>)

UnitGolds == SeqsOf({4, 7}, 0, MaxVec)

UnitVectors == SeqsOf({4, 5, 7}, 0, MaxVec)

\* Rows of the three event types; the code of a Response row may hold any text.
UnitRows ==
    { StartRow, Pic(3, rating_("7"), 100003, 0), Vid(2, vid_1, 100000),
      Resp(3, <<"1">>, 100003), Resp(3, Picture \o <<"_", "1">>, 100004),
      Resp(4, Video, 100005) }

UnitLogs == SeqsOf(UnitRows, 0, MaxRows)

InitFn ==
    /\ subjects = <<>>
    /\ resources = <<>>
    /\ glm = <<>>
    /\ io = "ok"
    /\ out = <<>>
    /\ errorlog = <<>>
    /\ Begin
    /\ run = 1
    /\ succeeded = {}
    /\ lastEnd = "none"
    /\ calc = NoCall

main_state == <<subjects, resources, glm, out, errorlog, pc, idx, rc, logs, cond,
                li, fk, acc, run, found, nparsed, opened, analysed, skipped,
                succeeded, lastEnd, io>>

\* find_ratings(pic, blk_start, blk_end, blk_start_time, duration)
ApplyFindRatings ==
    /\ calc = NoCall
    /\ \E rs \in UnitRatings, tail \in BOOLEAN, blk_end \in {None, UnitTrial + 3},
          duration \in 0..MaxDuration :
          LET fr == find_ratings(UnitPic(rs, tail), UnitTrial, blk_end, UnitStart,
                                 duration)
          IN  calc' = [op |-> "find_ratings", arg |-> fr, out |-> subj_rate(fr),
                       inp |-> [pic |-> UnitPic(rs, tail), blk_start |-> UnitTrial,
                                blk_end |-> blk_end]]
    /\ UNCHANGED main_state

\* zscore(data)
ApplyZscore ==
    /\ calc = NoCall
    /\ \E data \in UnitVectors :
          calc' = [op |-> "zscore", arg |-> data, out |-> zscore(data)]
    /\ UNCHANGED main_state

\* Lines 318-340 of process_behav_data: find_ratings, then match_lengths or
\* np.repeat, then the amplitude (for a gold-standard vector of an entry or
\* more).  A block lasts a whole number of seconds: 2 ticks or more here.
ApplyAlign ==
    /\ calc = NoCall
    /\ \E rs \in UnitRatings, gold_rate \in UnitGolds, duration \in 2..MaxDuration :
          LET fr == find_ratings(UnitPic(rs, FALSE), UnitTrial, None, UnitStart,
                                 duration)
              subj == IF fr.n_pushes # 0
                      THEN match_lengths(gold_rate, subj_rate(fr))
                      ELSE repeat5(Len(gold_rate))
          IN  calc' = [op |-> "align", arg |-> [gold_rate |-> gold_rate, fr |-> fr],
                       out |-> subj,
                       z |-> IF gold_rate = <<>> THEN [kind |-> "none", of |-> <<>>]
                             ELSE r2z(nan_to_zero(corrcoef(zscore(subj),
                                                           zscore(gold_rate))))]
    /\ UNCHANGED main_state

\* log_parser(log)
ApplyLogParser ==
    /\ calc = NoCall
    /\ \E log \in UnitLogs :
          calc' = [op |-> "log_parser", arg |-> log, out |-> log_parser(log)]
    /\ UNCHANGED main_state

NextFn ==
    \/ ApplyFindRatings
    \/ ApplyZscore
    \/ ApplyAlign
    \/ ApplyLogParser

SpecFn == InitFn /\ [][NextFn]_vars

----------------------------------------------------------------------------
(* Properties. *)

InCall == pc \in {"check", "discover", "parse", "open", "write", "close", "exited"}

LaterSubjectsAnalysed ==
    \A j \in (idx + 1)..Len(subjects) : ~subjects[j].pha => j \in analysed

\* C1: a failure of analyze_subject for one subject (a wrong number of logs,
\* a log that fails to parse) does not abort the batch: every later
\* non-phantom subject of the list is analysed by the invocation.
C1_FailureDoesNotAbortBatch ==
    (pc = "exited" /\ rc = 1) => LaterSubjectsAnalysed

\* C2: when the number of logs discovered for a subject is not exactly 3,
\* analyze_subject ends in failure with an error log that holds the message
\* and the host, has parsed no log and has opened none of the output files.
C2_WrongLogCountFails ==
    found \notin {-1, NLogs} =>
        /\ pc = "exited"
        /\ rc = 1
        /\ errorlog[idx].st = "present"
        /\ errorlog[idx].message # <<>>
        /\ errorlog[idx].node = NODE
        /\ nparsed = 0
        /\ opened = {}
        /\ \A c \in 1..2, k \in 1..NFiles : out[idx][c][k].st \in {"absent", "closed"}

C2_Witness ==
    /\ pc = "exited"
    /\ found = 4
    /\ errorlog[idx].st = "present"
    /\ Len(errorlog[idx].message[2]) = 4

\* C3: a call of analyze_subject for a subject for which an earlier call has
\* returned normally (its output files are as that call left them) parses no
\* log and opens no file.
C3_SecondRunIsNoOp ==
    (InCall /\ idx \in succeeded) =>
        /\ nparsed = 0
        /\ opened = {}
        /\ pc \in {"check", "exited"}

\* C4: when the skip rule finds a subject complete, the batch goes on: every
\* later non-phantom subject of the list is analysed by the invocation.
C4_SkipDoesNotAbortBatch ==
    (pc = "exited" /\ rc = 0) => LaterSubjectsAnalysed

FirstPictureCode(rows) ==
    LET ps == {i \in 1..Len(rows) : rows[i].eventtype = Picture}
    IN  IF ps = {} THEN <<>>
        ELSE rows[CHOOSE i \in ps : \A j \in ps : i <= j].code

SomeLogFails == \E k \in 1..Len(logs) : FirstPictureCode(logs[k].rows) # MRI_start

----------------------------------------------------------------------------
(* What the files of a condition are to hold, told from the logs. *)

PicturesOf(rows) == SelectSeq(rows, LAMBDA s : s.eventtype = Picture)
VideosOf(rows) == SelectSeq(rows, LAMBDA s : s.eventtype = Video)

\* The value log_parser takes for the start of the run.
MriStartOf(rows) == log_parser(rows).mri_start

\* The blocks of log k that belong to test type tt, in log order.
KeptBlocksOf(k, tt) ==
    LET vs == VideosOf(logs[k].rows)
        other == IF tt = "vid" THEN "c" ELSE "v"
        all == [i \in 1..Len(vs) |->
                   [k |-> k, i |-> i, label |-> vs[i].code, start |-> vs[i].time,
                    trial |-> vs[i].trial,
                    next |-> IF i < Len(vs) THEN vs[i + 1].trial ELSE None]]
    IN  SelectSeq(all, LAMBDA b : Head(b.label) # other)

\* The kept blocks of all the logs, in the order of the logs.
KeptBlocks(tt) == Flatten([k \in 1..Len(logs) |-> KeptBlocksOf(k, tt)])

\* The rating events of a block: the indices of the Picture rows of its log
\* whose trial is in the block's window and whose code holds 'rating'.
RatingsIn(b) ==
    LET ps == PicturesOf(logs[b.k].rows)
    IN  {j \in 1..Len(ps) :
            /\ Contains(ps[j].code, rating)
            /\ ps[j].trial >= b.trial
            /\ IF b.next = None THEN ps[j].trial <= ps[Len(ps)].trial
               ELSE ps[j].trial < b.next}

\* The row of the button-press table for rating event j of block b.
ExpectedButtonRow(b, j) ==
    LET ps == PicturesOf(logs[b.k].rows)
    IN  [b |-> logs[b.k].block_id, v |-> b.label, r |-> LastDigit(ps[j].code),
         t |-> 100 * (ps[j].time - MriStartOf(logs[b.k].rows))]

Count(ss, x) == Cardinality({n \in 1..Len(ss) : ss[n] = x})

\* Row a is not after row b in the order of (run id, label, time).
RowLeq(a, b) ==
    \/ StrLess(a.b, b.b)
    \/ a.b = b.b /\ StrLess(a.v, b.v)
    \/ a.b = b.b /\ a.v = b.v /\ a.t <= b.t

Written1 == Flatten(out[idx][cond][1].body)
Written2 == out[idx][cond][2].body
Written3 == out[idx][cond][3].body
Written4 == out[idx][cond][4].body

\* C7: the stimulus-timing file of a condition has one line per run, and
\* line k holds the tokens of the kept blocks of run k.
C7_OneLinePerRun ==
    pc = "close" =>
        LET body == out[idx][cond][1].body
        IN  /\ Len(body) = Len(logs)
            /\ \A k \in 1..Len(logs) :
                  Len(body[k]) = Len(KeptBlocksOf(k, TestTypes[cond]))

\* C8: the button-press table of a condition holds exactly one row per
\* rating event of the kept blocks (none lost, none twice), and its rows are
\* in the order of (run id, label, time).
C8_ButtonRowsSortedPermutation ==
    pc = "close" =>
        LET kb == KeptBlocks(TestTypes[cond])
            events == {<<n, j>> : n \in 1..Len(kb), j \in 1..Len(logs[1].rows)}
            ev == {e \in events : e[2] \in RatingsIn(kb[e[1]])}
            rows == {ExpectedButtonRow(kb[e[1]], e[2]) : e \in ev}
        IN  /\ Len(Written3) = Cardinality(ev)
            /\ \A n \in 1..Len(Written3) : Written3[n] \in rows
            /\ \A x \in rows :
                  Count(Written3, x) =
                      Cardinality({e \in ev : ExpectedButtonRow(kb[e[1]], e[2]) = x})
            /\ \A n \in 1..(Len(Written3) - 1) : RowLeq(Written3[n], Written3[n + 1])

C8_Witness ==
    /\ pc = "close"
    /\ logs[1].block_id = Str1("2")
    /\ Len(Written3) >= 5
    /\ \E n \in 1..(Len(Written3) - 1) :
          /\ Written3[n].b = Written3[n + 1].b
          /\ Written3[n].v = Written3[n + 1].v
          /\ Written3[n].t < Written3[n + 1].t
    /\ \E n \in 1..(Len(Written3) - 1) :
          /\ Written3[n].b = Written3[n + 1].b
          /\ Written3[n].v # Written3[n + 1].v

\* C9: the tokens of the timing file, the rows of the correlation table and
\* the rows of the onset table are as many as the kept blocks of the 3 runs,
\* and the i-th token, the i-th correlation row and the i-th onset row are
\* those of the i-th kept block.
C9_OneEntryPerKeptBlock ==
    pc = "close" =>
        LET kb == KeptBlocks(TestTypes[cond])
        IN  /\ Len(Written1) = Len(kb)
            /\ Len(Written2) = Len(kb)
            /\ Len(Written4) = Len(kb)
            /\ \A i \in 1..Len(kb) :
                  LET b == kb[i]
                      n == Cardinality(RatingsIn(b))
                  IN  /\ Written4[i].b = logs[b.k].block_id
                      /\ Written4[i].r = b.label
                      /\ Written4[i].t = Fmt2(b.start - MriStartOf(logs[b.k].rows))
                      /\ Written2[i].r.of.gold = b.label
                      /\ Written2[i].r.of.subj.start = b.start
                      /\ Written2[i].r.of.subj.n_pushes = n
                      /\ Written2[i].p = <<n * 60 * TicksPerSec, VidLengths(b.label)>>
                      /\ Written1[i].r = Written2[i].r
                      /\ Written1[i].p = Written2[i].p

C9_Witness ==
    /\ pc = "close"
    /\ cond = 2
    /\ Len(Written1) = 2
    /\ Len(Written4) = 2
    /\ \E i \in 1..2 : Written2[i].r.of.subj.n_pushes = 0
    /\ \E i \in 1..2 : Written2[i].r.of.subj.n_pushes = 2

OtherKind(tt) == IF tt = "vid" THEN "c" ELSE "v"

\* C11: a block is kept for vid exactly when its label does not start with
\* 'c' and for cvid exactly when it does not start with 'v': every block of
\* the 3 logs has its row in the onset table of the condition exactly when
\* its label does not start with the other kind's letter, and no token,
\* correlation row, onset row or button-press row of the condition is that
\* of a block of the other kind.
C11_ConditionFilter ==
    pc = "close" =>
        LET other == OtherKind(TestTypes[cond])
        IN  /\ \A k \in 1..Len(logs) :
                  LET vs == VideosOf(logs[k].rows)
                  IN  \A i \in 1..Len(vs) :
                          Head(vs[i].code) # other <=>
                              \E n \in 1..Len(Written4) :
                                  /\ Written4[n].b = logs[k].block_id
                                  /\ Written4[n].r = vs[i].code
                                  /\ Written4[n].t =
                                        Fmt2(vs[i].time - MriStartOf(logs[k].rows))
            /\ \A n \in 1..Len(Written4) : Head(Written4[n].r) # other
            /\ \A n \in 1..Len(Written3) : Head(Written3[n].v) # other
            /\ \A n \in 1..Len(Written2) : Head(Written2[n].r.of.gold) # other
            /\ \A n \in 1..Len(Written1) : Head(Written1[n].r.of.gold) # other
            /\ Len(Written1) = Len(Written4)
            /\ Len(Written2) = Len(Written4)

C11_Witness ==
    /\ pc = "close"
    /\ cond = 2
    /\ \E k \in 1..Len(logs) :
          \E i \in 1..Len(logs[k].rows) :
              /\ logs[k].rows[i].eventtype = Video
              /\ Head(logs[k].rows[i].code) = "v"
    /\ \E n \in 1..Len(Written4) : Head(Written4[n].r) = "c"
    /\ \E n \in 1..Len(Written3) : Head(Written3[n].v) = "c"

\* The correlation of the block of correlation row c is degenerate: no
\* response, or a subject vector or a gold-standard vector without variance.
Degenerate(c) ==
    \/ c.subj.n_pushes = 0
    \/ ZeroStd(aligned(GoldRate(c.gold), c.subj))
    \/ ZeroStd(GoldRate(c.gold))

\* The number of rating events of the kept blocks of the condition whose
\* index is in I.
PushesOf(I) ==
    LET kb == KeptBlocks(TestTypes[cond])
    IN  Len(Flatten([i \in 1..Len(kb) |->
                        IF i \in I THEN [j \in 1..Cardinality(RatingsIn(kb[i])) |-> i]
                        ELSE <<>>]))

\* The parts of C13 that hold of every degenerate kept block.
DegenerateAmplitudeZero ==
    LET kb == KeptBlocks(TestTypes[cond])
    IN  /\ Len(Written1) = Len(kb)
        /\ Len(Written2) = Len(kb)
        /\ Len(Written4) = Len(kb)
        /\ \A i \in 1..Len(kb) :
              Degenerate(Written2[i].r.of) =>
                  /\ Written2[i].r.of.z.kind = "0.0"
                  /\ Written1[i].r.of.z.kind = "0.0"
                  /\ Written4[i].r = kb[i].label
                  /\ RatingsIn(kb[i]) = {} =>
                        Written2[i].p = <<0, VidLengths(kb[i].label)>>

\* C13 as stated: a kept block whose correlation is degenerate does not make
\* the processing fail, its amplitude is exactly 0, its push rate is 0 when
\* it has no response, it has its token, its correlation row and its onset
\* row, and it contributes no row to the button-press table: the rows of the
\* table are those of the blocks that are not degenerate.
C13_DegenerateNoButtonRows ==
    pc = "close" =>
        /\ DegenerateAmplitudeZero
        /\ Len(Written3) =
              PushesOf({i \in 1..Len(Written2) : ~Degenerate(Written2[i].r.of)})

\* C13 as amended: a kept block whose correlation is degenerate does not
\* make the processing fail, its amplitude is exactly 0 and it has its
\* token, its correlation row and its onset row; when it has no response its
\* push rate is 0 and it contributes no row to the button-press table, and
\* when it has responses each of them has its row in that table.
C13_DegenerateAmplitude ==
    pc = "close" =>
        /\ DegenerateAmplitudeZero
        /\ Len(Written3) =
              PushesOf({i \in 1..Len(Written2) : Written2[i].r.of.subj.n_pushes # 0})

C13_Witness ==
    /\ pc = "close"
    /\ cond = 1
    /\ \E i \in 1..Len(Written2) :
          /\ Written2[i].r.of.subj.n_pushes = 0
          /\ Written2[i].r.of.z.kind = "0.0"
    /\ \E i \in 1..Len(Written2) :
          /\ Written2[i].r.of.subj.n_pushes = 1
          /\ ZeroStd(aligned(GoldRate(Written2[i].r.of.gold), Written2[i].r.of.subj))
          /\ ~ZeroStd(GoldRate(Written2[i].r.of.gold))
          /\ Written2[i].r.of.z.kind = "0.0"
    /\ \E i \in 1..Len(Written2) : Written2[i].r.of.z.kind = "r2z"

\* The time of the first row of a log whose event type is Picture.
FirstPictureTime(rows) == PicturesOf(rows)[1].time

\* C16: the start of the run that log_parser returns is the time of the
\* MRI_start row, the first Picture row, and it is what is taken from the
\* starts of the blocks and from the times of the ratings: the onset rows
\* and the button-press rows hold times relative to it.
C16_MriStartIsTime ==
    pc = "close" =>
        LET kb == KeptBlocks(TestTypes[cond])
        IN  /\ \A k \in 1..Len(logs) :
                  log_parser(logs[k].rows).mri_start = FirstPictureTime(logs[k].rows)
            /\ \A i \in 1..Len(kb) :
                  /\ i <= Len(Written4)
                  /\ Written4[i].t =
                        Fmt2(kb[i].start - FirstPictureTime(logs[kb[i].k].rows))

\* The five lists of test type c of subject i when the call is about to
\* write, told from the subject's logs alone.
ExpectedAcc(i, c) ==
    LET ls == DiscoverLogs(i)
        rs == [n \in 1..Len(ls) |->
                  process_behav_data(ls[n].rows, TestTypes[c], ls[n].block_id)]
    IN  [on |-> Flatten([n \in 1..Len(ls) |-> rs[n].on]),
         dur |-> Flatten([n \in 1..Len(ls) |-> rs[n].dur]),
         corr |-> Flatten([n \in 1..Len(ls) |-> rs[n].corr]),
         push |-> Flatten([n \in 1..Len(ls) |-> rs[n].push]),
         timings |-> sorted(Flatten([n \in 1..Len(ls) |-> rs[n].timings]))]

\* C18: each of the four files of a condition is made anew by a call that
\* reaches the writes: when the call has written them, what they hold is
\* told by the subject's logs alone, whatever they held before, so a second
\* full run on the same logs leaves the files the first run left.
C18_FilesMadeAnew ==
    pc = "close" =>
        LET a == ExpectedAcc(idx, cond)
        IN  \A k \in 1..NFiles :
                /\ Len(out[idx][cond][k].body) = Len(Written(a, k).body)
                /\ out[idx][cond][k] = Written(a, k)

C18_Witness ==
    /\ run = 2
    /\ lastEnd = "done"
    /\ pc = "close"
    /\ cond = 2
    /\ idx \in succeeded
    /\ \A k \in 1..NFiles : out[idx][cond][k].body # <<>>
    /\ \A k \in 1..NFiles : out[idx][1][k].st = "closed"

\* C19: the header of the onset table is 'Block_ID,Video,Onset', with no
\* blank in a column name, that of the correlation table is
\* 'correlation,n-pushes-per-minute' and that of the button-press table is
\* 'Block_ID,Video,Response,Timing'.
C19_HeadersExact ==
    pc = "close" =>
        /\ out[idx][cond][2].header = "correlation,n-pushes-per-minute\n"
        /\ out[idx][cond][3].header = "Block_ID,Video,Response,Timing\n"
        /\ out[idx][cond][4].header = "Block_ID,Video,Onset\n"

\* The lists of the five results of the first n logs of the call for its
\* test type, log after log.
ParsedSoFar(n) ==
    LET rs == [k \in 1..n |->
                  process_behav_data(logs[k].rows, TestTypes[cond], logs[k].block_id)]
    IN  [on |-> Flatten([k \in 1..n |-> rs[k].on]),
         dur |-> Flatten([k \in 1..n |-> rs[k].dur]),
         corr |-> Flatten([k \in 1..n |-> rs[k].corr]),
         push |-> Flatten([k \in 1..n |-> rs[k].push]),
         timings |-> Flatten([k \in 1..n |-> rs[k].timings])]

\* C24: no file of a condition is opened or written before the 3 logs of
\* the subject have been processed for the condition; the logs are processed
\* in the order of their paths and their blocks in log order; when a log
\* fails for a condition the call opens no file of that condition.
C24_ParseBeforeWrite ==
    /\ \A c \in 1..2, k \in 1..NFiles : <<c, k>> \in opened => nparsed >= NLogs * c
    /\ \A k \in 1..(Len(logs) - 1) : logs[k].path < logs[k + 1].path
    /\ pc = "parse" => acc = ParsedSoFar(li - 1)
    /\ (pc = "open" /\ fk = 0) => (nparsed >= NLogs * cond /\ acc = ParsedSoFar(NLogs))
    /\ (pc = "exited" /\ rc = 1 /\ found = NLogs) =>
          \A k \in 1..NFiles : <<cond, k>> \notin opened

C24_Witness ==
    /\ pc = "open"
    /\ cond = 2
    /\ fk = 1
    /\ nparsed = 2 * NLogs
    /\ opened = {<<1, 1>>, <<1, 2>>, <<1, 3>>, <<1, 4>>, <<2, 1>>}
    /\ Len(acc.on) = 3

\* The rating rows of the Picture rows pic from the trial of the first of
\* blocks on.
RatingRows(pic, blocks) ==
    {j \in 1..Len(pic) : Contains(pic[j].code, rating) /\ pic[j].trial >= blocks[1][1]}

\* C26: in a log whose Video rows have increasing trials the windows of the
\* blocks are disjoint and cover the trials from that of the first block to
\* that of the last Picture row: each rating row from the trial of the first
\* block on is retained by exactly one block.
C26_WindowsPartition ==
    pc = "close" =>
        \A k \in 1..Len(logs) :
            LET p == log_parser(logs[k].rows)
                blocks == find_blocks(p.vid, p.mri_start).blocks
                Window(i) == trial_list(p.pic, blocks[i][1],
                                        IF i < Len(blocks) THEN blocks[i + 1][1] ELSE None)
            IN  /\ \A i \in 1..(Len(blocks) - 1) : blocks[i][1] < blocks[i + 1][1]
                /\ \A i, j \in 1..Len(blocks) : i # j => Window(i) \cap Window(j) = {}
                /\ UNION {Window(i) : i \in 1..Len(blocks)} =
                      blocks[1][1]..p.pic[Len(p.pic)].trial
                /\ \A j \in RatingRows(p.pic, blocks) :
                      Cardinality({i \in 1..Len(blocks) : p.pic[j].trial \in Window(i)}) = 1
                /\ SumSeq([i \in 1..Len(blocks) |-> BlockRatings(p, blocks, i).n_pushes])
                      = Cardinality(RatingRows(p.pic, blocks))

C26_Witness ==
    /\ pc = "close"
    /\ \E k \in 1..Len(logs) :
          LET p == log_parser(logs[k].rows)
              blocks == find_blocks(p.vid, p.mri_start).blocks
          IN  /\ Len(blocks) = 2
              /\ BlockRatings(p, blocks, 1).n_pushes = 2
              /\ BlockRatings(p, blocks, 2).n_pushes = 1

\* C30: a phantom is never passed to analyze_subject and gets no output file
\* and no error log; the loop goes on after it: the subject that follows it
\* in the list is processed.
C30_PhantomSkipped ==
    /\ \A i \in 1..Len(subjects) :
          subjects[i].pha =>
              /\ i \notin analysed
              /\ i \notin succeeded
              /\ out[i] = NoOutputs
              /\ errorlog[i] = NoError
    /\ \A i \in skipped :
          /\ subjects[i].pha
          /\ idx > i
          /\ (i < Len(subjects) /\ ~subjects[i + 1].pha
                /\ (idx > i + 1 \/ pc \notin {"main", "crashed"})) => i + 1 \in analysed

C30_Witness ==
    /\ Len(subjects) = 2
    /\ subjects[1].pha
    /\ skipped = {1}
    /\ analysed = {2}
    /\ pc = "done"
    /\ out[1] = NoOutputs
    /\ out[2][2][4].st = "closed"

\* C27: an IOError of an open or of a write is handled inside
\* analyze_subject: no exception leaves the function (the process never ends
\* by an exception raised in the finally clause), and outside the try
\* statement no output file is left open.
C27_IOErrorHandled ==
    /\ pc # "raised"
    /\ pc \in {"main", "done", "parse"} =>
          \A i \in 1..Len(subjects), c \in 1..2, k \in 1..NFiles :
              out[i][c][k].st # "open"

\* C28: once a call has discovered the logs, error.log exists exactly when
\* the call found a number of logs other than 3, whatever an earlier
\* invocation left; no subject for which analyze_subject has returned has an
\* error.log.
C28_ErrorLogReset ==
    /\ (pc \in {"parse", "open", "write", "close", "exited", "raised"} /\ found # -1) =>
          (errorlog[idx].st = "present" <=> found # NLogs)
    /\ \A i \in succeeded : errorlog[i] = NoError

\* The second invocation succeeds for the subject the first one failed for,
\* for want of logs: the error.log of the first is gone.
C28_Witness ==
    /\ run = 2
    /\ lastEnd = "exited"
    /\ subjects = <<[pha |-> FALSE]>>
    /\ resources[1] = ThreeGood
    /\ succeeded = {1}
    /\ pc = "done"
    /\ errorlog[1] = NoError

----------------------------------------------------------------------------
(* Properties of the functions applied on their own. *)

\* C12: for a block without a rating response find_ratings returns a vector
\* as long as the block's duration, each entry 5, whatever the duration from
\* 0 on, with a push count of 0 and no rating.
C12_NoResponseVectorFull ==
    (calc.op = "find_ratings" /\ Len(calc.arg.ratings) = 0) =>
        /\ Len(calc.out) = calc.arg.duration
        /\ \A q \in 1..Len(calc.out) : calc.out[q] = 5
        /\ calc.arg.n_pushes = 0

\* The ratings of an application of find_ratings have increasing times that
\* all lie in the block.
RatingsInOrder(fr) ==
    /\ \A k \in 1..Len(fr.ratings) :
          fr.ratings[k][2] \in fr.start..(fr.start + fr.duration - 1)
    /\ \A k \in 1..(Len(fr.ratings) - 1) : fr.ratings[k][2] < fr.ratings[k + 1][2]

\* C20: for a block that starts at S and lasts D, with ratings (V1,T1) ..
\* (Vn,Tn), n >= 1, of strictly increasing times in [S, S+D), the vector of
\* find_ratings has length D and holds 5 on [0, T1-S), Vk on [Tk-S, T(k+1)-S)
\* and Vn on [Tn-S, D).
C20_StepFunction ==
    (calc.op = "find_ratings" /\ Len(calc.arg.ratings) >= 1
        /\ RatingsInOrder(calc.arg)) =>
        LET fr == calc.arg
            n == Len(fr.ratings)
            T(k) == fr.ratings[k][2] - fr.start
            V(k) == fr.ratings[k][1]
        IN  /\ Len(calc.out) = fr.duration
            /\ fr.n_pushes = n
            /\ \A q \in 0..(fr.duration - 1) :
                  /\ q < T(1) => calc.out[q + 1] = 5
                  /\ \A k \in 1..(n - 1) :
                        (T(k) <= q /\ q < T(k + 1)) => calc.out[q + 1] = V(k)
                  /\ T(n) <= q => calc.out[q + 1] = V(n)

C20_Witness ==
    /\ calc.op = "find_ratings"
    /\ Len(calc.arg.ratings) = 2
    /\ RatingsInOrder(calc.arg)
    /\ calc.arg.duration = MaxDuration
    /\ calc.out = <<5, 8, 8, 5>>

\* C14: zscore of a constant vector of length N returns N zeros: it does not
\* raise, and no entry of its result is not-a-number.
C14_ZscoreOfConstantIsZero ==
    (calc.op = "zscore" /\ ZeroStd(calc.arg)) =>
        /\ Len(calc.out) = Len(calc.arg)
        /\ \A k \in 1..Len(calc.out) : calc.out[k] = ZeroEntry

\* C15: the subject's vector after lines 325-328 is as long as the
\* gold-standard vector: without a push it is that many 5s; with a push it
\* is the subject's vector interpolated at that many points spread evenly
\* from its first to its last sample, whatever its own length.
C15_AlignedLength ==
    calc.op = "align" =>
        LET gold_rate == calc.arg.gold_rate
            fr == calc.arg.fr
            b == subj_rate(fr)
            la == Len(gold_rate)
            den == IF la > 1 THEN la - 1 ELSE 1
        IN  /\ Len(calc.out) = la
            /\ fr.n_pushes = 0 => \A j \in 1..la : calc.out[j] = <<5, 1>>
            /\ fr.n_pushes # 0 =>
                  /\ Len(b) = fr.duration
                  /\ calc.out = aligned(gold_rate, fr)
                  /\ la >= 1 => calc.out[1] = <<b[1] * den, den>>
                  /\ la >= 2 => calc.out[la] = <<b[Len(b)] * den, den>>
                  /\ \A j \in 1..la :
                        \E q \in 1..Len(b) :
                            LET q2 == IF q < Len(b) THEN q + 1 ELSE q
                                lo == IF b[q] <= b[q2] THEN b[q] ELSE b[q2]
                                hi == IF b[q] <= b[q2] THEN b[q2] ELSE b[q]
                            IN  /\ (q - 1) * den <= (j - 1) * (Len(b) - 1)
                                /\ (j - 1) * (Len(b) - 1) <= (q2 - 1) * den
                                /\ lo * den <= calc.out[j][1]
                                /\ calc.out[j][1] <= hi * den
                                /\ calc.out[j][2] = den

C15_Witness ==
    /\ calc.op = "align"
    /\ calc.arg.fr.n_pushes = 2
    /\ calc.arg.fr.duration = MaxDuration
    /\ Len(calc.arg.gold_rate) = MaxVec
    /\ Len(calc.out) = MaxVec
    /\ \E j \in 1..Len(calc.out) : calc.out[j][1] % calc.out[j][2] # 0

\* The rows of a log whose event type is et, in the order of the log.
RowsOfType(log, et) == SelectSeq(log, LAMBDA s : s.eventtype = et)

\* C17: log_parser puts a row in the Picture sequence exactly when its event
\* type is Picture and in the Video sequence exactly when it is Video, in
\* the order of the log, whatever its other fields hold: a Response row is
\* in neither sequence and no row is in both.
C17_RowsByEventType ==
    calc.op = "log_parser" =>
        /\ calc.out.pic = RowsOfType(calc.arg, Picture)
        /\ calc.out.vid = RowsOfType(calc.arg, Video)

\* The time of rating k of fr is off the time axis of the block.
OffAxis(fr, k) ==
    fr.ratings[k][2] < fr.start \/ fr.ratings[k][2] >= fr.start + fr.duration

\* C21: a rating whose time is not on the axis of the block does not make
\* find_ratings fail: its changeover index is the previous one plus 1, for
\* any run of such ratings, also past the end of the axis, and the vector has
\* the length of the duration.  With every rating off the axis the vector is
\* 5, V1, V2, .. one index each and the last value to the end; a rating off
\* the axis after one on it changes the value one index after it.
C21_OffAxisFallback ==
    (calc.op = "find_ratings" /\ Len(calc.arg.ratings) >= 1) =>
        LET fr == calc.arg
            n == Len(fr.ratings)
            V(k) == fr.ratings[k][1]
        IN  /\ Len(calc.out) = fr.duration
            /\ (\A k \in 1..n : OffAxis(fr, k)) =>
                  \A q \in 0..(fr.duration - 1) :
                      calc.out[q + 1] = IF q = 0 THEN 5
                                        ELSE IF q < n THEN V(q) ELSE V(n)
            /\ (n = 2 /\ ~OffAxis(fr, 1) /\ OffAxis(fr, 2)) =>
                  LET t1 == fr.ratings[1][2] - fr.start
                  IN  \A q \in 0..(fr.duration - 1) :
                          calc.out[q + 1] = IF q < t1 THEN 5
                                            ELSE IF q = t1 THEN V(1) ELSE V(2)

C21_Witness ==
    /\ calc.op = "find_ratings"
    /\ Len(calc.arg.ratings) = 2
    /\ \A k \in 1..2 : OffAxis(calc.arg, k)
    /\ calc.arg.duration = 2
    /\ calc.out = <<5, 8>>

\* C22: for one or more ratings in any order of time (on the axis or off it,
\* twice the same time, times going back) every index of the vector holds 5
\* or the value of one of the ratings: none is left at the 0 the vector is
\* made of at first.
C22_TotalCoverage ==
    (calc.op = "find_ratings" /\ Len(calc.arg.ratings) >= 1) =>
        /\ Len(calc.out) = calc.arg.duration
        /\ \A q \in 1..Len(calc.out) :
              \/ calc.out[q] = 5
              \/ \E k \in 1..Len(calc.arg.ratings) : calc.out[q] = calc.arg.ratings[k][1]

C22_Witness ==
    /\ calc.op = "find_ratings"
    /\ Len(calc.arg.ratings) = 3
    /\ calc.arg.ratings[2][2] < calc.arg.ratings[1][2]
    /\ calc.arg.ratings[3][2] = calc.arg.ratings[2][2]
    /\ ~OffAxis(calc.arg, 1)
    /\ ~OffAxis(calc.arg, 2)
    /\ calc.arg.duration = MaxDuration
    /\ calc.out[1] = 5
    /\ calc.out[MaxDuration] = 9

C25_ResampleOwnLength ==
    (calc.op = "align" /\ calc.arg.fr.n_pushes # 0) =>
        LET b == subj_rate(calc.arg.fr)
            la == Len(calc.arg.gold_rate)
        IN  /\ la = Len(b) =>
                  \A j \in 1..la :
                      calc.out[j][1] = b[j] * calc.out[j][2] /\ calc.out[j][2] > 0
            /\ la >= 2 =>
                  /\ calc.out[1][1] = b[1] * calc.out[1][2]
                  /\ calc.out[la][1] = b[Len(b)] * calc.out[la][2]

C25_Witness ==
    /\ calc.op = "align"
    /\ calc.arg.fr.n_pushes = 2
    /\ Len(calc.arg.gold_rate) = 3
    /\ calc.arg.fr.duration = 3
    /\ subj_rate(calc.arg.fr) = <<5, 8, 5>>
    /\ calc.out = <<<<10, 2>>, <<16, 2>>, <<10, 2>>>>

\* C29: the amplitude of a block is a finite number: a coefficient of
\* exactly 1 or -1 between the subject's vector and the gold-standard vector
\* gives no infinite amplitude.
C29_AmplitudeFinite ==
    calc.op = "align" => calc.z.kind \notin {"inf", "-inf"}

====
